---- MODULE Spec2Model ----
(***************************************************************************)
(* rollup-plugin-datafile: the plugin's hooks (resolveId, load, buildEnd,  *)
(* renderChunk) as a state machine over its registry, together with the    *)
(* runtime helpers (atob2, decodeInlineBase64) that decode what            *)
(* renderChunk writes into a chunk.                                        *)
(*                                                                         *)
(* Representation.  A JS string that the code only compares is a TLA+      *)
(* string; a JS string that the code takes apart (a literal, a base64      *)
(* payload, a data: URL) is a sequence of one-character strings.  A Buffer *)
(* is a sequence of byte values.  A path is the sequence of the segments    *)
(* between its slashes, so that an absolute path starts with the empty     *)
(* segment.                                                                *)
(* The two registry maps hold the same JS objects: infoByUid holds the     *)
(* objects (every object has its own uniqueId), infoByImport holds, per    *)
(* request string, the uniqueId of the object it refers to.                *)
(***************************************************************************)
EXTENDS Integers, Sequences, FiniteSets, TLC

\* ------------------------------------------------------------- bounds
\* successful resolveId calls in one run of the lifecycle specification
MaxResolve == 3
\* successful resolveId calls in one run of the configuration specification
MaxConfigResolve == 1
\* successful resolveId calls in one run of the inline-file specification
MaxInlineResolve == 1
\* buildEnd calls in one run
MaxBuildEnd == 2
\* length of a file drawn for the codec and the inline-file specifications
MaxLen == 3

\* length of a text handed to atob2 in the text specification
MaxText == 5
\* resolveId calls of the build that exercises the path forms
MaxPathResolve == 2
\* resolveId calls of one plugin instance over its successive builds
MaxWatchResolve == 2
\* resolveId calls that register a record in the build that varies the options
MaxOptionResolve == 1
\* records registered in the build that compares the two sources
MaxEarlyResolve == 2

\* ------------------------------------------------------------- JS values
\* undefined / null (an absent option, a missing query parameter)
None == "<undefined>"
\* rawData: null
NullData == <<-1>>
\* fileReferenceId: undefined
NoRef == 0
\* importer: undefined (an entry point)
NoImporter == <<>>

Truthy(v) == v # None /\ v # ""
\* a || b
Or(a, b) == IF Truthy(a) THEN a ELSE b

NoOptions == [location |-> None, mode |-> None, timing |-> None, mime |-> None]
Opt(l, m, t, mi) == [location |-> l, mode |-> m, timing |-> t, mime |-> mi]

mergeOptions(target, modifier) ==
    [location |-> Or(target.location, modifier.location),
     mode     |-> Or(target.mode, modifier.mode),
     timing   |-> Or(target.timing, modifier.timing),
     mime     |-> Or(target.mime, modifier.mime)]

\* ------------------------------------------------------------- paths
\* process.cwd()
projectDir == <<"", "p">>

\* path.isAbsolute
isAbsolute(p) == p # <<>> /\ p[1] = ""

RECURSIVE Normalize(_)
\* path.join's normalisation of ".." and "." segments
Normalize(segs) ==
    IF segs = <<>> THEN <<>>
    ELSE LET init == Normalize(SubSeq(segs, 1, Len(segs) - 1))
             last == segs[Len(segs)]
         IN  IF last = "." THEN init
             ELSE IF last = ".." /\ init = <<"">> THEN init
             ELSE IF last = ".." /\ init # <<>> /\ init[Len(init)] # ".."
                  THEN SubSeq(init, 1, Len(init) - 1)
             ELSE Append(init, last)

join(dir, segs) == Normalize(dir \o segs)
dirname(p) == SubSeq(p, 1, Len(p) - 1)
basename(p) == p[Len(p)]

\* the file names of the model, with path.extname of each
ExtOf == [n \in {"a.png", "b.json", "c.txt", "e.bin"} |->
            CASE n = "a.png" -> ".png" [] n = "b.json" -> ".json"
              [] n = "c.txt" -> ".txt" [] OTHER -> ".bin"]
extname(p) == ExtOf[basename(p)]

\* new URL(id).pathname: lead is "~/", "~", "/" or "" (what the path starts
\* with), segs the segments after it
Pathname(lead, segs) == [lead |-> lead, segs |-> segs]
\* the request string: the datafile: prefix, the path and the query
\* (searchParams.get of each key: None when the key is absent)
Id(pathname, search) ==
    [pathname |-> pathname, search |-> search, scheme |-> "datafile"]
\* a request string without the datafile: prefix: a plain path (scheme
\* "none"), a file: URL, or the name of a virtual module (scheme "\\0")
Request(scheme, pathname, search) ==
    [pathname |-> pathname, search |-> search, scheme |-> scheme]

\* helperFileName: null
NullName == "<null>"
\* dataPlugin() called without helperFileName, include and exclude
DefaultOptions ==
    [helperFileName |-> None,
     include |-> [given |-> FALSE, exts |-> {}],
     exclude |-> [given |-> FALSE, exts |-> {}]]

\* new URL(id) throws a TypeError for a string that has no scheme
parses(id) == id.scheme # "none"

\* the mutation of inputFilePathOf that joins every path to the project root
inputFilePathFromRoot(id, importer) ==
    IF id.pathname.lead = "/" THEN <<"">> \o id.pathname.segs
    ELSE join(projectDir, id.pathname.segs)

inputFilePathOf(id, importer) ==
    LET importerDir == IF importer # NoImporter THEN dirname(importer) ELSE projectDir
        pn == id.pathname
    IN  IF pn.lead = "~/" THEN join(projectDir, pn.segs)
        ELSE IF pn.lead = "~" THEN join(projectDir, pn.segs)
        ELSE IF pn.lead = "/" THEN <<"">> \o pn.segs
        ELSE join(importerDir, pn.segs)

RECURSIVE commonLen(_, _)
commonLen(a, b) ==
    IF a = <<>> \/ b = <<>> \/ Head(a) # Head(b) THEN 0
    ELSE 1 + commonLen(Tail(a), Tail(b))

\* path.relative(from, to) of two absolute paths
relative(from, to) ==
    LET c == commonLen(from, to)
    IN  [i \in 1..(Len(from) - c) |-> ".."] \o SubSeq(to, c + 1, Len(to))

\* hasher.update(pathRelativeToProject); hasher.digest("hex"): the digest is
\* named by what was hashed, so that two digests are equal only when the two
\* relative paths are
hashPathRelative(p) == [sha256 |-> relative(projectDir, p)]

\* `assets/${fileName}${fileExtWithDot}`: fileName and extension are the two
\* parts of the base name, so the concatenation is the base name again
getDefaultAssetPath(p) == <<"assets", basename(p)>>

\* ------------------------------------------------------------- fileTypes
BuiltinFileTypes == [e \in {".png", ".json", ".txt"} |->
    CASE e = ".png"  -> Opt(None, "blob", None, "image/png")
      [] e = ".json" -> Opt(None, "json", None, "text/json")
      [] OTHER       -> Opt(None, "text", None, "text/plain")]

\* fileTypes after the constructor has merged the built-in entries into the
\* table the user passed
SeededFileTypes(user) ==
    [e \in DOMAIN user \cup DOMAIN BuiltinFileTypes |->
        IF e \in DOMAIN BuiltinFileTypes
        THEN mergeOptions(IF e \in DOMAIN user THEN user[e] ELSE NoOptions,
                          BuiltinFileTypes[e])
        ELSE user[e]]

\* fileTypes?.[ext] ?? {}
fileTypesEntry(table, ext) == IF ext \in DOMAIN table THEN table[ext] ELSE NoOptions

VARIABLES
    variant,            \* "ts": src/index.ts as in part_000; "dist": dist/es/index.js;
                        \* "early": the earlier src/index.ts of part_001
    fileTypes,          \* the seeded extension table
    fileOptions,        \* what the fileOptions callback returns (for every path)
    disk,               \* readFile: path -> bytes
    uniqueIdCounter,
    infoByImport,       \* request string -> uniqueId of the record it refers to
    infoByUid,          \* uniqueId -> record
    filePathsToEmitIds, \* output path -> emission handle
    assets,             \* the host's emitted files: handle -> [fileName, source, sets]
    phase,              \* the host's phase: "build", then "generate"
    buildEnds,          \* buildEnd calls so far
    call,               \* the last resolveId call and what it returned or threw
    modules,            \* load's result per resolved id (uniqueId)
    chunk,              \* the last renderChunk call: its input and its result
    decoded,            \* the runtime's last decodeInlineBase64 call
    codec,              \* the codec on its own: bytes, their base64 text, atob2 of it
    fetched,            \* the runtime's call of an asset helper: its arguments, its result
    useTopLevelAwait,   \* the option of that name
    options             \* the options helperFileName, include and exclude

vars == <<variant, fileTypes, fileOptions, disk, uniqueIdCounter, infoByImport,
          infoByUid, filePathsToEmitIds, assets, phase, buildEnds, call, modules,
          chunk, decoded, codec, fetched, useTopLevelAwait, options>>


\* ------------------------------------------------------------- resolveId
\* fileOptions(inputFilePath), or {} without a callback
fileOptionsAt(path) == fileOptions

defaultsSwapped(path) ==
    mergeOptions(fileTypesEntry(fileTypes, extname(path)), fileOptionsAt(path))

\* { mode: defaultMode, location: defaultLocation, ... }; the earlier source
\* merges the other way round and knows no timing
defaults(path) ==
    IF variant = "early"
    THEN [mergeOptions(fileTypesEntry(fileTypes, extname(path)), fileOptionsAt(path))
            EXCEPT !.timing = None]
    ELSE mergeOptions(fileOptionsAt(path), fileTypesEntry(fileTypes, extname(path)))

\* a && q && a != q
Conflict(a, q) == Truthy(a) /\ Truthy(q) /\ a # q

noConflictError(id, assertions) == FALSE

\* the four checks under "Input validation, yay" (three in the earlier source)
conflictError(id, assertions) ==
    \/ Conflict(assertions.location, id.search.location)
    \/ Conflict(assertions.mime, id.search.mime)
    \/ Conflict(assertions.mode, id.search.mode)
    \/ variant # "early" /\ Conflict(assertions.timing, id.search.timing)

\* location, mode, mime, timing: q || a || default || fallback
merged(id, assertions, d) ==
    [location |-> Or(id.search.location, Or(assertions.location, Or(d.location, "inline"))),
     mode     |-> Or(id.search.mode, Or(assertions.mode, Or(d.mode, "blob"))),
     mime     |-> Or(id.search.mime, Or(assertions.mime, Or(d.mime, "application/octet-stream"))),
     timing   |-> IF variant = "early" THEN None
                  ELSE Or(id.search.timing, Or(assertions.timing, Or(d.timing, "async")))]

unknownAccepted(m) == "ok"

\* the two checks under "Back to input validation..." (the earlier source
\* knows the location "url" too)
unknownError(m) ==
    IF /\ m.location # "asset" /\ m.location # "inline"
       /\ ~(variant = "early" /\ m.location = "url")
    THEN "unknown location"
    ELSE IF m.mode \notin {"blob", "array-buffer", "json", "text", "response"}
         THEN "unknown mode"
    ELSE "ok"

\* the mutation of emitted that emits no file
emittedNever(m) == FALSE

\* if (location == "asset"), and the location "url" in the earlier source
emitted(m) == m.location = "asset" \/ (variant = "early" /\ m.location = "url")

\* `\0${helperFileName || "decode-asset"}.js`: the module's name before ".js"
DATA_HELPER_DECODE ==
    Request("\\0",
            Pathname("", <<IF options.helperFileName \in {None, NullName, ""}
                           THEN "decode-asset"
                           ELSE options.helperFileName>>),
            [location |-> None, mode |-> None, timing |-> None, mime |-> None])
\* helperFileName === null
inlineHelpers == options.helperFileName = NullName

\* createFilter(include, exclude)(id): no id that holds "\\0" passes; an
\* exclude pattern that matches wins; without include patterns every other id
\* passes.  A pattern is the set of the extensions it matches.
filter(id) ==
    /\ id.scheme # "\\0"
    /\ extname(id.pathname.segs) \notin options.exclude.exts
    /\ \/ extname(id.pathname.segs) \in options.include.exts
       \/ options.include.exts = {}

\* id.startsWith(DATA_PREFIX) || (!!include && filter(id))
handles(id) == id.scheme = "datafile" \/ (options.include.given /\ filter(id))

\* what resolveId throws for a request, "ok" when it throws nothing
resolveError(id, importer, assertions) ==
    IF ~parses(id) THEN "TypeError"
    ELSE IF conflictError(id, assertions) THEN "conflict"
    ELSE unknownError(merged(id, assertions, defaults(inputFilePathOf(id, importer))))

counterAfterAnyCall(err) == uniqueIdCounter + 1

\* uniqueId: uniqueIdCounter++, in the object literal that every throw precedes
counterAfter(err) == IF err = "ok" THEN uniqueIdCounter + 1 ELSE uniqueIdCounter

Call(id, importer, assertions, outcome, uid) ==
    [id |-> id, importer |-> importer, assertions |-> assertions,
     outcome |-> outcome, uid |-> uid]

newInfoOf(id, importer, assertions, uid, ref) ==
    LET path == inputFilePathOf(id, importer)
        m    == merged(id, assertions, defaults(path))
        out  == getDefaultAssetPath(path)
    IN  [outputFilePath  |-> IF ref # NoRef THEN assets'[ref].fileName ELSE out,
         mode            |-> m.mode,
         rawData         |-> NullData,
         uniqueId        |-> uid,
         inputFilePath   |-> path,
         outputDirectory |-> <<".">>,
         fileReferenceId |-> ref,
         import          |-> id,
         location        |-> m.location,
         timing          |-> m.timing,
         mime            |-> m.mime,
         \* dist/es/index.js only; index.ts has no such field and never reads it
         dirty           |-> TRUE]

resolveId(id, importer, assertions) ==
    LET err   == resolveError(id, importer, assertions)
        path  == inputFilePathOf(id, importer)
        m     == merged(id, assertions, defaults(path))
        out   == getDefaultAssetPath(path)
        asset == emitted(m)
        \* this.emitFile({ type: "asset", fileName: outputFilePath })
        ref   == IF asset THEN Len(assets) + 1 ELSE NoRef
        uid   == uniqueIdCounter
    IN  IF id = DATA_HELPER_DECODE \/ ~handles(id)
        \* return id, or no return at all
        THEN /\ call' = Call(id, importer, assertions,
                             IF id = DATA_HELPER_DECODE THEN "helper" ELSE "ignored",
                             -1)
             /\ UNCHANGED <<variant, fileTypes, fileOptions, disk, uniqueIdCounter,
                            infoByImport, infoByUid, filePathsToEmitIds, assets,
                            phase, buildEnds, modules, chunk, decoded, codec,
                            fetched, useTopLevelAwait, options>>
        ELSE IF parses(id) /\ variant = "early" /\ id \in DOMAIN infoByImport
        \* if (!infoByImport.has(id)) of the earlier source: the record is reused
        THEN /\ call' = Call(id, importer, assertions, "resolved", infoByImport[id])
             /\ UNCHANGED <<variant, fileTypes, fileOptions, disk, uniqueIdCounter,
                            infoByImport, infoByUid, filePathsToEmitIds, assets,
                            phase, buildEnds, modules, chunk, decoded, codec,
                            fetched, useTopLevelAwait, options>>
        ELSE IF err # "ok"
        THEN /\ call' = Call(id, importer, assertions, err, -1)
             /\ uniqueIdCounter' = counterAfter(err)
             /\ UNCHANGED <<variant, fileTypes, fileOptions, disk, infoByImport,
                            infoByUid, filePathsToEmitIds, assets, phase, buildEnds,
                            modules, chunk, decoded, codec, fetched,
                            useTopLevelAwait, options>>
        ELSE /\ assets' = IF asset
                          THEN Append(assets, [fileName |-> out, source |-> NullData,
                                               sets |-> 0])
                          ELSE assets
             /\ filePathsToEmitIds' = IF asset THEN (out :> ref) @@ filePathsToEmitIds
                                      ELSE filePathsToEmitIds
             /\ uniqueIdCounter' = counterAfter(err)
             /\ infoByUid' = (uid :> newInfoOf(id, importer, assertions, uid, ref))
                                @@ infoByUid
             /\ infoByImport' = (id :> uid) @@ infoByImport
             /\ call' = Call(id, importer, assertions, "resolved", infoByImport'[id])
             /\ UNCHANGED <<variant, fileTypes, fileOptions, disk, phase, buildEnds,
                            modules, chunk, decoded, codec, fetched,
                            useTopLevelAwait, options>>


\* ------------------------------------------------------------- text
\* the characters of the strings that the code builds literals from
Chars(str) ==
    CASE str = "data:" -> <<"d", "a", "t", "a", ":">>
      [] str = ";base64" -> <<";", "b", "a", "s", "e", "6", "4">>
      [] str = "undefined" -> <<"u", "n", "d", "e", "f", "i", "n", "e", "d">>
      [] str = "image/png" -> <<"i", "m", "a", "g", "e", "/", "p", "n", "g">>
      [] str = "text/json" -> <<"t", "e", "x", "t", "/", "j", "s", "o", "n">>
      [] str = "text/plain" -> <<"t", "e", "x", "t", "/", "p", "l", "a", "i", "n">>
      [] str = "application/octet-stream" ->
            <<"a", "p", "p", "l", "i", "c", "a", "t", "i", "o", "n", "/", "o", "c", "t", "e", "t", "-", "s", "t", "r", "e", "a", "m">>
      [] str = "a/b" -> <<"a", "/", "b">>
      [] str = "x" -> <<"x">>

\* Buffer.toString("utf-8") of the bytes the model draws files from: NUL and
\* FFFD stand for the one character U+0000 and U+FFFD (a byte that is no
\* UTF-8 decodes to U+FFFD)
Utf8Char(b) ==
    CASE b = 0 -> "NUL" [] b = 34 -> "\"" [] b = 92 -> "\\" [] b = 123 -> "{"
      [] b = 125 -> "}" [] b = 49 -> "1" [] OTHER -> "FFFD"

toStringUtf8(bytes) == [i \in 1..Len(bytes) |-> Utf8Char(bytes[i])]

RECURSIVE Flatten(_)
Flatten(seqs) == IF seqs = <<>> THEN <<>> ELSE Head(seqs) \o Flatten(Tail(seqs))

\* JSON.stringify's escape of one character of a string
JsonEscape(c) ==
    CASE c = "\"" -> <<"\\", "\"">>
      [] c = "\\" -> <<"\\", "\\">>
      [] c = "NUL" -> <<"\\", "u", "0", "0", "0", "0">>
      [] OTHER -> <<c>>

\* JSON.stringify(string): the string as a JSON string literal
JSONstringify(str) ==
    <<"\"">> \o Flatten([i \in 1..Len(str) |-> JsonEscape(str[i])]) \o <<"\"">>

RECURSIVE JsonUnescape(_)
\* the characters between the quotes of a JSON string literal, unescaped;
\* <<"SyntaxError">> at an unescaped quote, a control character or a bad escape
JsonUnescape(t) ==
    IF t = <<>> THEN <<>>
    ELSE IF t[1] = "\"" \/ t[1] = "NUL" THEN <<"SyntaxError">>
    ELSE IF t[1] = "\\"
         THEN IF Len(t) >= 2 /\ t[2] \in {"\"", "\\"}
              THEN LET rest == JsonUnescape(SubSeq(t, 3, Len(t)))
                   IN  IF rest = <<"SyntaxError">> THEN rest ELSE <<t[2]>> \o rest
              ELSE IF Len(t) >= 6 /\ SubSeq(t, 2, 6) = <<"u", "0", "0", "0", "0">>
              THEN LET rest == JsonUnescape(SubSeq(t, 7, Len(t)))
                   IN  IF rest = <<"SyntaxError">> THEN rest ELSE <<"NUL">> \o rest
              ELSE <<"SyntaxError">>
    ELSE LET rest == JsonUnescape(Tail(t))
         IN  IF rest = <<"SyntaxError">> THEN rest ELSE <<t[1]>> \o rest

\* JSON.parse(text): [ok, value]; the value of a string literal is its string,
\* the value of any other JSON text is left as that text
JSONparse(t) ==
    IF Len(t) >= 2 /\ t[1] = "\"" /\ t[Len(t)] = "\""
    THEN LET v == JsonUnescape(SubSeq(t, 2, Len(t) - 1))
         IN  IF v = <<"SyntaxError">> THEN [ok |-> FALSE, value |-> <<>>]
             ELSE [ok |-> TRUE, value |-> v]
    ELSE IF t \in {<<"{", "}">>, <<"1">>, <<"1", "1">>, <<"1", "1", "1">>,
                   <<"1", "1", "1", "1">>}
    THEN [ok |-> TRUE, value |-> t]
    ELSE [ok |-> FALSE, value |-> <<>>]

\* ------------------------------------------------------------- base64
itoc ==
    <<"A", "B", "C", "D", "E", "F", "G", "H", "I", "J", "K", "L", "M", "N", "O", "P",
      "Q", "R", "S", "T", "U", "V", "W", "X", "Y", "Z", "a", "b", "c", "d", "e", "f",
      "g", "h", "i", "j", "k", "l", "m", "n", "o", "p", "q", "r", "s", "t", "u", "v",
      "w", "x", "y", "z", "0", "1", "2", "3", "4", "5", "6", "7", "8", "9", "+", "/",
      "=">>

\* ctoi: the index of each character of itoc (the loop also sets ctoi[""] for
\* index 65, and no character of a string is "")
ctoiTable == [chr \in {itoc[i] : i \in 1..Len(itoc)} |->
                (CHOOSE i \in 1..Len(itoc) : itoc[i] = chr) - 1]
ctoi(chr) == ctoiTable[chr]
\* ctoi.hasOwnProperty(chr)
hasCtoi(chr) == chr \in DOMAIN ctoiTable

RECURSIVE toBase64(_)
\* Buffer.toString("base64"): standard base64 with = padding
toBase64(bytes) ==
    IF bytes = <<>> THEN <<>>
    ELSE IF Len(bytes) = 1
    THEN <<itoc[(bytes[1] \div 4) + 1], itoc[((bytes[1] % 4) * 16) + 1], "=", "=">>
    ELSE IF Len(bytes) = 2
    THEN <<itoc[(bytes[1] \div 4) + 1],
           itoc[((bytes[1] % 4) * 16 + bytes[2] \div 16) + 1],
           itoc[((bytes[2] % 16) * 4) + 1], "=">>
    ELSE <<itoc[(bytes[1] \div 4) + 1],
           itoc[((bytes[1] % 4) * 16 + bytes[2] \div 16) + 1],
           itoc[((bytes[2] % 16) * 4 + bytes[3] \div 64) + 1],
           itoc[(bytes[3] % 64) + 1]>>
         \o toBase64(SubSeq(bytes, 4, Len(bytes)))

Whitespace == {" ", "\n", "\t", "\r"}

RECURSIVE trimStart(_)
trimStart(str) ==
    IF str # <<>> /\ str[1] \in Whitespace THEN trimStart(Tail(str)) ELSE str

RECURSIVE trimEnd(_)
trimEnd(str) ==
    IF str # <<>> /\ str[Len(str)] \in Whitespace
    THEN trimEnd(SubSeq(str, 1, Len(str) - 1)) ELSE str

\* String.prototype.trim
trim(str) == trimEnd(trimStart(str))

\* string.replace(/[=]{1,2}$/, '')
stripFinalEq(str) ==
    LET n == Len(str)
    IN  IF n >= 2 /\ str[n] = "=" /\ str[n - 1] = "=" THEN SubSeq(str, 1, n - 2)
        ELSE IF n >= 1 /\ str[n] = "=" THEN SubSeq(str, 1, n - 1)
        ELSE str

Pow2(n) == CASE n = 0 -> 1 [] n = 2 -> 4 [] n = 4 -> 16 [] n = 6 -> 64
\* (-2 * bc & 6): the low bits of -2*bc in two's complement
shiftOf(bc) == ((-2 * bc) % 8)

\* ret[outPos] = value; a write past the end of a typed array is dropped
setByte(ret, outPos, value) ==
    IF outPos + 1 \in 1..Len(ret) THEN [ret EXCEPT ![outPos + 1] = value] ELSE ret

RECURSIVE atob2Loop(_, _, _, _, _, _)
\* while (chr = string.charAt(position++)) { ... }
atob2Loop(string, position, bc, bs, outPos, ret) ==
    IF position >= Len(string) THEN ret
    ELSE LET chr == string[position + 1]
         IN  IF hasCtoi(chr)
             THEN LET bs2 == IF bc % 4 # 0 THEN bs * 64 + ctoi(chr) ELSE ctoi(chr)
                      bc2 == bc + 1
                  IN  IF bc % 4 # 0
                      THEN atob2Loop(string, position + 1, bc2, bs2, outPos + 1,
                                     setByte(ret, outPos,
                                             (bs2 \div Pow2(shiftOf(bc2))) % 256))
                      ELSE atob2Loop(string, position + 1, bc2, bs2, outPos, ret)
             ELSE atob2Loop(string, position + 1, bc, bs, outPos, ret)

atob2NoStrip(data) ==
    LET string == trim(data)
    IN  IF Len(string) % 4 = 1
        THEN [ok |-> FALSE, buffer |-> <<>>]
        ELSE [ok |-> TRUE,
              buffer |-> atob2Loop(string, 0, 0, 0, 0,
                                   [i \in 1..((Len(string) * 6) \div 8) |-> 0])]

\* atob2(data): ok is FALSE when it throws the DOMException
atob2(data) ==
    LET trimmed == trim(data)
        string  == IF Len(trimmed) % 4 = 0 THEN stripFinalEq(trimmed) ELSE trimmed
    IN  IF Len(string) % 4 = 1
        THEN [ok |-> FALSE, buffer |-> <<>>]
        ELSE [ok |-> TRUE,
              buffer |-> atob2Loop(string, 0, 0, 0, 0,
                                   [i \in 1..((Len(string) * 6) \div 8) |-> 0])]


\* ------------------------------------------------------------- data: URLs
\* "." of a regular expression: any character but a line terminator
Dot(c) == c \notin {"\n", "\r"}
AllDot(str, i, j) == \A k \in i..j : Dot(str[k])

\* where the tail (;base64)?,(.+) of Base64Regex matches from position e: the
\* position of its comma, 0 when it does not match.  (;base64)? is tried first
\* with the group, then without it.
tailComma(str, e) ==
    LET n == Len(str)
        commaAt(k) == k < n /\ str[k] = "," /\ Dot(str[k + 1])
    IN  IF e + 6 <= n /\ SubSeq(str, e, e + 6) = Chars(";base64") /\ commaAt(e + 7)
        THEN e + 7
        ELSE IF commaAt(e) THEN e ELSE 0

\* (.+?\/.+?) from the colon at c with its slash at j: the positions its
\* second .+? can end at, the tail matching after it
mimeEnds(str, j) ==
    {e \in (j + 1)..Len(str) : tailComma(str, e + 1) # 0 /\ AllDot(str, j + 1, e)}

\* the slashes (.+?\/.+?) can use from the colon at c
mimeSlashes(str, c) ==
    {j \in (c + 2)..Len(str) :
        str[j] = "/" /\ AllDot(str, c + 1, j - 1) /\ mimeEnds(str, j) # {}}

\* whether .+: can end at the colon at c when the match starts at p and the
\* rest of the pattern matches after it
colonWorks(str, p, c) ==
    /\ str[c] = ":"
    /\ AllDot(str, p, c - 1)
    /\ (tailComma(str, c + 1) # 0 \/ mimeSlashes(str, c) # {})

startWorks(str, p) == \E c \in (p + 1)..Len(str) : colonWorks(str, p, c)

NoMatch == [matched |-> FALSE, hasMime |-> FALSE, g1 |-> <<>>, g3 |-> <<>>]

\* /.+:(.+?\/.+?)?(;base64)?,(.+)/.exec(str): matched, and groups 1 and 3.
\* The leftmost start wins; .+ is greedy (the last colon that works), the two
\* .+? are lazy (the nearest slash, then the nearest end), an optional group
\* is tried before it is skipped, and (.+) runs to the end of the line.
Base64RegexExec(str) ==
    LET n == Len(str)
    IN  IF ~\E p \in 1..n : startWorks(str, p) THEN NoMatch
        ELSE LET p  == CHOOSE x \in 1..n :
                            startWorks(str, x) /\ \A y \in 1..(x - 1) : ~startWorks(str, y)
                 c  == CHOOSE x \in (p + 1)..n :
                            /\ colonWorks(str, p, x)
                            /\ \A y \in (x + 1)..n : ~colonWorks(str, p, y)
                 js == mimeSlashes(str, c)
                 j  == CHOOSE x \in js : \A y \in js : x <= y
                 es == mimeEnds(str, j)
                 e  == CHOOSE x \in es : \A y \in es : x <= y
                 k  == IF js # {} THEN tailComma(str, e + 1) ELSE tailComma(str, c + 1)
                 m  == CHOOSE x \in (k + 1)..n :
                            AllDot(str, k + 1, x) /\ (x = n \/ ~Dot(str[x + 1]))
             IN  [matched |-> TRUE,
                  hasMime |-> js # {},
                  g1 |-> IF js # {} THEN SubSeq(str, c + 1, e) ELSE <<>>,
                  g3 |-> SubSeq(str, k + 1, m)]

\* decodeInlineBase64(base64): { mime, buffer }; hasMime is FALSE when mime is
\* undefined, ok is FALSE when atob2 throws
decodeInlineBase64(base64) ==
    LET parsed  == Base64RegexExec(base64)
        sextets == IF parsed.matched THEN parsed.g3 ELSE base64
        buffer  == atob2(sextets)
    IN  [hasMime |-> parsed.matched /\ parsed.hasMime,
         mime    |-> IF parsed.matched THEN parsed.g1 ELSE <<>>,
         ok      |-> buffer.ok,
         buffer  |-> buffer.buffer]

RECURSIVE stringValue(_)
\* the value of the characters between the quotes of a JS string literal: a
\* backslash and a line break are a line continuation and give nothing, a
\* backslash and another character give that character
stringValue(src) ==
    IF src = <<>> THEN <<>>
    ELSE IF src[1] = "\\" /\ Len(src) >= 2
         THEN IF src[2] = "\n" THEN stringValue(SubSeq(src, 3, Len(src)))
              ELSE <<src[2]>> \o stringValue(SubSeq(src, 3, Len(src)))
    ELSE <<src[1]>> \o stringValue(Tail(src))

\* the string a quoted literal evaluates to
literalValue(lit) == stringValue(SubSeq(lit, 2, Len(lit) - 1))


\* ------------------------------------------------------------- load
\* capitalize(info.mode)
capitalize(str) ==
    CASE str = "blob" -> "Blob" [] str = "array-buffer" -> "Array-buffer"
      [] str = "json" -> "Json" [] str = "text" -> "Text"
      [] str = "response" -> "Response"

\* how a synthesized module gets at the helpers: their source is part of the
\* module ("inline") or the module imports them from DATA_HELPER_DECODE
helperOf == IF inlineHelpers THEN "inline" ELSE "import"
helperFrom == IF inlineHelpers THEN None ELSE DATA_HELPER_DECODE.pathname.segs[1]

moduleOfNoSync(info) ==
    LET c == capitalize(info.mode)
        m == IF c = "Array-buffer" THEN "ArrayBuffer" ELSE c
    IN  IF info.location = "asset"
        THEN [kind |-> "asset", m |-> m, url |-> info.outputFilePath,
              placeholder |-> -1, await |-> useTopLevelAwait,
              helper |-> helperOf, from |-> helperFrom]
        ELSE [kind |-> "inline", m |-> m, url |-> <<>>,
              placeholder |-> info.uniqueId, await |-> useTopLevelAwait,
              helper |-> helperOf, from |-> helperFrom]

\* the mutation of moduleOf whose modules always import the helpers
moduleOfShared(info) ==
    [moduleOfNoSync(info) EXCEPT !.helper = "import",
                                 !.from = DATA_HELPER_DECODE.pathname.segs[1]]

\* the module load synthesizes for a record: kind "url" exports the output
\* path, kind "asset" calls decodeAsset<m>(fetch(url)), kind "inline" calls
\* decodeInline<m> on the placeholder numbered `placeholder`; await says
\* whether the call is written after "await "; helper and from say where the
\* helpers come from
moduleOf(info) ==
    LET c == capitalize(info.mode)
        m == IF c = "Array-buffer" THEN "ArrayBuffer" ELSE c
    IN  IF info.location = "asset" /\ info.timing = "sync"
        THEN [kind |-> "url", m |-> None, url |-> info.outputFilePath,
              placeholder |-> -1, await |-> FALSE,
              helper |-> "none", from |-> None]
        ELSE IF info.location = "asset"
        THEN [kind |-> "asset", m |-> m, url |-> info.outputFilePath,
              placeholder |-> -1, await |-> useTopLevelAwait,
              helper |-> helperOf, from |-> helperFrom]
        ELSE [kind |-> "inline", m |-> m, url |-> <<>>,
              placeholder |-> info.uniqueId, await |-> useTopLevelAwait,
              helper |-> helperOf, from |-> helperFrom]

\* the key of the helper module among the loaded modules
HelperUid == -1
\* return decodeResponseHelperFile
helperModule ==
    [kind |-> "helper", m |-> None, url |-> <<>>, placeholder |-> -1,
     await |-> FALSE, helper |-> "inline", from |-> None]

\* load(DATA_HELPER_DECODE) when uid is HelperUid, else load("\\0datafile:" + uid)
load(uid) ==
    /\ modules' = (uid :> IF uid = HelperUid THEN helperModule
                          ELSE moduleOf(infoByUid[uid])) @@ modules
    /\ UNCHANGED <<variant, fileTypes, fileOptions, disk, uniqueIdCounter,
                   infoByImport, infoByUid, filePathsToEmitIds, assets, phase,
                   buildEnds, call, chunk, decoded, codec, fetched,
                   useTopLevelAwait, options>>

\* ------------------------------------------------------------- buildEnd
\* the records the loops over infoByImport visit
visited == {infoByImport[i] : i \in DOMAIN infoByImport}

\* the records whose bytes buildEnd hands to setAssetSource
pushed ==
    {u \in visited : /\ infoByUid[u].location = "asset"
                     /\ (variant = "dist" => infoByUid[u].dirty)}

buildEnd ==
    /\ infoByUid' = [u \in DOMAIN infoByUid |->
            IF u \in visited
            THEN [infoByUid[u] EXCEPT
                    !.rawData = disk[infoByUid[u].inputFilePath],
                    !.dirty = IF variant = "dist" /\ u \in pushed THEN FALSE ELSE @]
            ELSE infoByUid[u]]
    \* this.setAssetSource(info.fileReferenceId, info.rawData)
    /\ assets' = [h \in DOMAIN assets |->
            IF \E u \in pushed : infoByUid[u].fileReferenceId = h
            THEN LET u == CHOOSE x \in pushed : infoByUid[x].fileReferenceId = h
                 IN  [assets[h] EXCEPT !.source = disk[infoByUid[u].inputFilePath],
                                       !.sets = @ + 1]
            ELSE assets[h]]
    /\ buildEnds' = buildEnds + 1
    /\ phase' = "generate"
    /\ UNCHANGED <<variant, fileTypes, fileOptions, disk, uniqueIdCounter,
                   infoByImport, filePathsToEmitIds, call, modules, chunk, decoded,
                   codec, fetched, useTopLevelAwait, options>>

\* ------------------------------------------------------------- renderChunk
\* const splitSize = 1024
splitSize == 1024

RECURSIVE afterSplit(_, _)
\* for (let i = 0; i < beforeSplit.length; i += splitSize) afterSplit.push(...)
afterSplit(beforeSplit, i) ==
    IF i < Len(beforeSplit)
    THEN <<SubSeq(beforeSplit, i + 1,
                  IF i + splitSize < Len(beforeSplit) THEN i + splitSize
                  ELSE Len(beforeSplit))>>
         \o afterSplit(beforeSplit, i + splitSize)
    ELSE <<>>

RECURSIVE joinSegments(_, _)
\* Array.prototype.join
joinSegments(segs, sep) ==
    IF segs = <<>> THEN <<>>
    ELSE IF Len(segs) = 1 THEN segs[1]
    ELSE segs[1] \o sep \o joinSegments(Tail(segs), sep)

\* `"data:${info.mime};base64,\\\n${afterSplit.join("\\\n")}"`
dataLiteral(mime, rawData) ==
    <<"\"">> \o Chars("data:") \o Chars(mime) \o Chars(";base64") \o <<",">>
        \o <<"\\", "\n">>
        \o joinSegments(afterSplit(toBase64(rawData), 0), <<"\\", "\n">>)
        \o <<"\"">>

Replaced(text) == [throws |-> "", text |-> text]
Thrown(error) == [throws |-> error, text |-> <<>>]

\* case "json": info.rawData ? JSON.parse(JSON.stringify(text)) : "undefined"
jsonCase(info) ==
    IF info.rawData # NullData
    THEN LET p == JSONparse(JSONstringify(toStringUtf8(info.rawData)))
         IN  IF p.ok THEN Replaced(p.value) ELSE Thrown("SyntaxError")
    ELSE Replaced(Chars("undefined"))

\* switch (info.mode): the text the callback returns for a record, or what is
\* thrown (a callback that returns undefined makes MagicString throw a
\* TypeError, as does null.toString)
switchMode(info) ==
    CASE info.mode = "text" ->
            IF info.rawData = NullData THEN Thrown("TypeError")
            ELSE Replaced(JSONstringify(toStringUtf8(info.rawData)))
      [] info.mode = "json" -> jsonCase(info)
      [] info.mode \in {"response", "array-buffer", "blob"} ->
            IF info.rawData = NullData THEN Thrown("TypeError")
            ELSE Replaced(dataLiteral(info.mime, info.rawData))
      [] OTHER -> Thrown("Error")

replacementNoStale(uniqueId) ==
    IF uniqueId \notin DOMAIN infoByUid THEN Thrown("TypeError")
    ELSE switchMode(infoByUid[uniqueId])

\* the callback of replaceAll for the placeholder numbered uniqueId
replacement(uniqueId) ==
    IF uniqueId \notin DOMAIN infoByUid THEN Replaced(Chars("undefined"))
    ELSE switchMode(infoByUid[uniqueId])

\* The text of a chunk is a sequence of these: "P" is the text
\* undefined/**@__AWAITING_DATAFILE_BASE64_ that a placeholder starts with,
\* "S" the text __**/ it ends with, the digits are themselves, and ";" is any
\* other code.
DigitChars == <<"0", "1", "2", "3", "4", "5", "6", "7", "8", "9">>
isDigit(c) == \E d \in 1..10 : DigitChars[d] = c
digitValue(c) == (CHOOSE d \in 1..10 : DigitChars[d] = c) - 1

RECURSIVE Digits(_)
\* `${info.uniqueId}`
Digits(n) ==
    IF n < 10 THEN <<DigitChars[n + 1]>>
    ELSE Append(Digits(n \div 10), DigitChars[(n % 10) + 1])

\* undefined/**@__AWAITING_DATAFILE_BASE64_${info.uniqueId}__**/
placeholderText(uid) == <<"P">> \o Digits(uid) \o <<"S">>

RECURSIVE digitsEnd(_, _)
\* [0-9]+ is greedy: the index of the last digit of the run that starts at i
\* (i - 1 when there is no digit at i)
digitsEnd(text, i) ==
    IF i <= Len(text) /\ isDigit(text[i]) THEN digitsEnd(text, i + 1) ELSE i - 1

RECURSIVE numberOf(_)
\* +i
numberOf(digits) ==
    IF digits = <<>> THEN 0
    ELSE 10 * numberOf(SubSeq(digits, 1, Len(digits) - 1))
            + digitValue(digits[Len(digits)])

RECURSIVE scan(_, _)
\* the matches of the pattern, left to right: the numbers in group 1
scan(text, i) ==
    IF i > Len(text) THEN <<>>
    ELSE LET j == digitsEnd(text, i + 1)
         IN  IF text[i] = "P" /\ j > i /\ j < Len(text) /\ text[j + 1] = "S"
             THEN <<numberOf(SubSeq(text, i + 1, j))>> \o scan(text, j + 2)
             ELSE scan(text, i + 1)

\* renderChunk(_code): every match of the pattern in the chunk's text is
\* replaced; chunk.code keeps the numbers of the matches, chunk.out what each
\* was replaced by
renderChunk(text) ==
    LET code == scan(text, 1)
        out == [i \in 1..Len(code) |-> replacement(code[i])]
        bad == {i \in 1..Len(code) : out[i].throws # ""}
    IN  /\ chunk' = [rendered |-> TRUE, code |-> code,
                     throws |-> IF bad = {} THEN ""
                                ELSE out[CHOOSE i \in bad : \A j \in bad : i <= j].throws,
                     out |-> IF bad = {} THEN [i \in 1..Len(code) |-> out[i].text]
                             ELSE <<>>]
        /\ UNCHANGED <<variant, fileTypes, fileOptions, disk, uniqueIdCounter,
                       infoByImport, infoByUid, filePathsToEmitIds, assets, phase,
                       buildEnds, call, modules, decoded, codec, fetched,
                       useTopLevelAwait, options>>

\* ------------------------------------------------------------- runtime
\* the bundle runs: the module of placeholder i of the chunk calls
\* decodeInlineBlob or decodeInlineArrayBuffer on the literal written there
runInline(i) ==
    /\ decoded' = [ran |-> TRUE, uid |-> chunk.code[i],
                   result |-> decodeInlineBase64(literalValue(chunk.out[i]))]
    /\ UNCHANGED <<variant, fileTypes, fileOptions, disk, uniqueIdCounter,
                   infoByImport, infoByUid, filePathsToEmitIds, assets, phase,
                   buildEnds, call, modules, chunk, codec, fetched,
                   useTopLevelAwait, options>>

\* ------------------------------------------------------------- the codec alone
encode ==
    /\ codec.pc = "bytes"
    /\ codec' = [codec EXCEPT !.pc = "text", !.text = toBase64(codec.bytes)]
    /\ UNCHANGED <<variant, fileTypes, fileOptions, disk, uniqueIdCounter,
                   infoByImport, infoByUid, filePathsToEmitIds, assets, phase,
                   buildEnds, call, modules, chunk, decoded, fetched,
                   useTopLevelAwait, options>>

decode ==
    /\ codec.pc = "text"
    /\ codec' = [codec EXCEPT !.pc = "done", !.result = atob2(codec.text)]
    /\ UNCHANGED <<variant, fileTypes, fileOptions, disk, uniqueIdCounter,
                   infoByImport, infoByUid, filePathsToEmitIds, assets, phase,
                   buildEnds, call, modules, chunk, decoded, fetched,
                   useTopLevelAwait, options>>


\* ------------------------------------------------------------- asset helpers
\* the values of the runtime: each a record tagged with what it is
Undefined == [js |-> "undefined"]
Null == [js |-> "null"]
Str(text) == [js |-> "string", text |-> text]
\* a Response: ok and status
Response(ok, status) == [js |-> "response", ok |-> ok, status |-> status]
\* a promise of a value, as fetch(url) returns: it has a then
Promise(value) == [js |-> "promise", value |-> value]

\* "then" in response
hasThen(v) == v.js = "promise"
\* await v: the value of a promise, or the value itself
awaited(v) == IF hasThen(v) THEN v.value ELSE v

\* the parameter backupValue of a helper when the caller passes nothing:
\* backupValue = null for decodeAssetBlob, backupValue = "" for the others
defaultBackup(helper) == IF helper = "Blob" THEN Null ELSE Str("")

\* the third argument a helper hands to decodeAssetShared: its backupValue
\* (the default when the caller passes nothing or undefined), and for
\* decodeAssetResponse, which has no such parameter, the response itself
backupOf(helper, arg, response) ==
    IF helper = "Response" THEN response
    ELSE IF arg = Undefined THEN defaultBackup(helper) ELSE arg

\* action(response): r.blob(), r.text(), r.json(), r.arrayBuffer(), r
extraction(helper, response) ==
    IF helper = "Response" THEN response ELSE [js |-> helper, of |-> response]

Resolved(value) == [state |-> "resolved", value |-> value, status |-> 0]
Rejected(status) == [state |-> "rejected", value |-> Undefined, status |-> status]

settledBackupFirst(helper, response, backup) ==
    IF backup \notin {Null, Undefined} THEN Resolved(awaited(backup))
    ELSE IF response.ok THEN Resolved(extraction(helper, response))
    ELSE Rejected(response.status)

\* decodeAssetShared from its second if on, for a response that has arrived;
\* backup != null is false for null and for undefined
settled(helper, response, backup) ==
    IF response.ok THEN Resolved(extraction(helper, response))
    ELSE IF backup \notin {Null, Undefined} THEN Resolved(awaited(backup))
    ELSE Rejected(response.status)

\* decodeAsset<helper>(response, arg): the call, up to decodeAssetShared's
\* first if
callAsset(helper, response, arg) ==
    /\ fetched.pc = "off"
    /\ fetched' = [pc |-> "shared", helper |-> helper, arg |-> arg,
                   passed |-> response, response |-> response,
                   backup |-> backupOf(helper, arg, response),
                   result |-> Rejected(0)]
    /\ UNCHANGED <<variant, fileTypes, fileOptions, disk, uniqueIdCounter,
                   infoByImport, infoByUid, filePathsToEmitIds, assets, phase,
                   buildEnds, call, modules, chunk, decoded, codec,
                   useTopLevelAwait, options>>

\* if ("then" in response) return await decodeAssetShared(await response, ...)
awaitResponse ==
    /\ fetched.pc = "shared"
    /\ hasThen(fetched.response)
    /\ fetched' = [fetched EXCEPT !.response = fetched.response.value]
    /\ UNCHANGED <<variant, fileTypes, fileOptions, disk, uniqueIdCounter,
                   infoByImport, infoByUid, filePathsToEmitIds, assets, phase,
                   buildEnds, call, modules, chunk, decoded, codec,
                   useTopLevelAwait, options>>

\* the rest of decodeAssetShared
settle ==
    /\ fetched.pc = "shared"
    /\ ~hasThen(fetched.response)
    /\ fetched' = [fetched EXCEPT
                     !.pc = "done",
                     !.result = settled(fetched.helper, fetched.response,
                                        fetched.backup)]
    /\ UNCHANGED <<variant, fileTypes, fileOptions, disk, uniqueIdCounter,
                   infoByImport, infoByUid, filePathsToEmitIds, assets, phase,
                   buildEnds, call, modules, chunk, decoded, codec,
                   useTopLevelAwait, options>>

\* ------------------------------------------------------------- the project
\* the modules that import data files
ModuleM == <<"", "p", "src", "m.js">>
ModuleN == <<"", "p", "lib", "n.js">>

NoSearch == NoOptions
Relative(name) == Pathname("", <<name>>)

\* the files on disk, with b.json holding the given bytes
DiskWith(png, json) ==
    [path \in {<<"", "p", "src", "a.png">>, <<"", "p", "lib", "a.png">>,
               <<"", "p", "src", "b.json">>, <<"", "p", "src", "c.txt">>,
               <<"", "p", "e.bin">>} |->
        CASE path = <<"", "p", "src", "a.png">> -> png
          [] path = <<"", "p", "lib", "a.png">> -> <<0>>
          [] path = <<"", "p", "src", "b.json">> -> json
          [] path = <<"", "p", "src", "c.txt">> -> <<34, 92>>
          [] OTHER -> <<>>]

\* the bytes files are drawn from: NUL, the quote, the backslash, a brace and
\* a byte that is no UTF-8
ByteSamples == {0, 34, 92, 123, 255}

\* the bytes the codec is run on: the ends and the middle of the range, and
\* the values around the six-bit boundaries
CodecBytes == {0, 1, 62, 63, 64, 127, 128, 191, 192, 250, 251, 255}

RECURSIVE SeqsUpTo(_, _)
SeqsUpTo(S, n) ==
    IF n = 0 THEN {<<>>}
    ELSE LET shorter == SeqsUpTo(S, n - 1)
         IN  shorter \cup {Append(q, x) : q \in shorter, x \in S}

Import(id, importer, assertions) ==
    [id |-> id, importer |-> importer, assertions |-> assertions]

\* the import statements of the lifecycle specification
LifeImports ==
    {Import(Id(Relative("a.png"), NoSearch), ModuleM, NoOptions),
     Import(Id(Relative("a.png"), NoSearch), ModuleN, NoOptions),
     Import(Id(Relative("b.json"), Opt("asset", "json", None, None)), ModuleM, NoOptions),
     Import(Id(Relative("b.json"), Opt("asset", "json", None, None)), ModuleM,
            Opt("inline", None, None, None)),
     Import(Id(Relative("c.txt"), Opt(None, "base", None, None)), ModuleM, NoOptions),
     Import(Id(Relative("b.json"), NoSearch), ModuleM, NoOptions),
     Import(Id(Relative("c.txt"), NoSearch), ModuleM, NoOptions),
     Import(Id(Pathname("~/", <<"e.bin">>), Opt("asset", None, "sync", None)), ModuleM,
            NoOptions)}

\* the values one source of options (query, assertion, callback, table entry)
\* gives in the configuration specification
OptionSamples ==
    {NoOptions,
     Opt("asset", None, None, "a/b"),
     Opt(None, "text", "sync", None),
     Opt("inline", "json", "", "x"),
     Opt("url", "", None, ""),
     Opt("", "base", "later", None),
     Opt(None, None, "async", "x"),
     Opt(None, "array-buffer", None, None)}

\* what the fileTypes table of the configuration specification gives for the
\* extensions .png and .bin, and what its fileOptions callback returns
TableSamples ==
    {NoOptions,
     Opt("asset", None, None, "a/b"),
     Opt("inline", "json", "", "x"),
     Opt("", "base", "later", None)}

CallbackSamples ==
    {NoOptions,
     Opt(None, "text", "sync", None),
     Opt("inline", "json", "", "x"),
     Opt("url", "", None, "")}

ConfigImports ==
    {Import(Id(Relative(name), q), ModuleM, a) :
        name \in {"a.png", "e.bin"}, q \in OptionSamples, a \in OptionSamples}

\* the import statements of the inline-file specification
InlineImports ==
    {Import(Id(Relative("a.png"), q), ModuleM, NoOptions) :
        q \in {NoSearch,
               Opt(None, "array-buffer", None, "application/octet-stream"),
               Opt(None, "blob", None, "x")}}

\* ------------------------------------------------------------- specifications
\* the plugin as dataPlugin(options) returns it, in a host that starts a build
Constructed(v, userTypes, callback, files) ==
    /\ variant = v
    /\ fileTypes = SeededFileTypes(userTypes)
    /\ fileOptions = callback
    /\ disk = files
    /\ uniqueIdCounter = 0
    /\ infoByImport = <<>>
    /\ infoByUid = <<>>
    /\ filePathsToEmitIds = <<>>
    /\ assets = <<>>
    /\ phase = "build"
    /\ buildEnds = 0
    /\ call = Call(Id(Relative("a.png"), NoSearch), NoImporter, NoOptions, "none", -1)
    /\ modules = <<>>
    /\ chunk = [rendered |-> FALSE, code |-> <<>>, throws |-> "", out |-> <<>>]
    /\ decoded = [ran |-> FALSE, uid |-> -1,
                  result |-> [hasMime |-> FALSE, mime |-> <<>>, ok |-> FALSE,
                              buffer |-> <<>>]]

CodecOff == [pc |-> "off", bytes |-> <<>>, text |-> <<>>,
             result |-> [ok |-> FALSE, buffer |-> <<>>]]

\* no asset helper has been called
FetchOff == [pc |-> "off", helper |-> "Blob", arg |-> Undefined,
             passed |-> Response(TRUE, 200), response |-> Response(TRUE, 200),
             backup |-> Undefined, result |-> Rejected(0)]

\* the chunk the host hands to renderChunk: the placeholders of the inline
\* modules loaded so far, and with `stale` one more whose number no record has
chunkCode(stale) ==
    LET S == {u \in DOMAIN modules : modules[u].kind = "inline"}
        RECURSIVE ordered(_)
        ordered(T) == IF T = {} THEN <<>>
                      ELSE LET u == CHOOSE x \in T : \A y \in T : x <= y
                           IN  <<u>> \o ordered(T \ {u})
    IN  ordered(S) \o (IF stale THEN <<uniqueIdCounter>> ELSE <<>>)

\* the text of a chunk that holds the modules of these records
chunkText(uids) == Flatten([k \in 1..Len(uids) |-> placeholderText(uids[k]) \o <<";">>])

\* the hooks as the host calls them: resolveId and load while the module graph
\* is built, buildEnd at its end (every resolved module has been loaded by
\* then), renderChunk per chunk afterwards; then the bundle runs
Hooks(imports, maxResolve) ==
    \/ /\ phase = "build"
       /\ uniqueIdCounter < maxResolve
       /\ \E i \in imports : resolveId(i.id, i.importer, i.assertions)
    \/ /\ phase = "build"
       /\ \E uid \in DOMAIN infoByUid : load(uid)
    \/ /\ buildEnds < MaxBuildEnd
       /\ DOMAIN modules = DOMAIN infoByUid
       /\ ~chunk.rendered
       /\ buildEnd
    \/ /\ phase = "generate"
       /\ \E stale \in BOOLEAN : renderChunk(chunkText(chunkCode(stale)))
    \/ /\ chunk.rendered /\ chunk.throws = ""
       /\ \E i \in 1..Len(chunk.code) :
            /\ chunk.code[i] \in DOMAIN modules
            /\ modules[chunk.code[i]].m \in {"Blob", "ArrayBuffer"}
            /\ runInline(i)

Init ==
    /\ \E v \in {"ts", "dist"}, json \in {<<123, 125>>, <<123>>} :
          Constructed(v, <<>>, NoOptions, DiskWith(<<255, 0, 123>>, json))
    /\ codec = CodecOff
    /\ fetched = FetchOff
    /\ useTopLevelAwait = FALSE
    /\ options = DefaultOptions

Next == Hooks(LifeImports, MaxResolve)

Spec == Init /\ [][Next]_vars

InitConfig ==
    /\ \E table \in TableSamples, callback \in CallbackSamples :
          Constructed("ts", [e \in {".png", ".bin"} |-> table], callback,
                      DiskWith(<<255, 0, 123>>, <<123, 125>>))
    /\ codec = CodecOff
    /\ fetched = FetchOff
    /\ useTopLevelAwait \in BOOLEAN
    /\ options = DefaultOptions

\* one build: the host calls resolveId per import, then load for what it
\* resolved, and stops at the first error
NextConfig ==
    \/ /\ call.outcome \in {"none", "resolved"}
       /\ uniqueIdCounter < MaxConfigResolve
       /\ \E i \in ConfigImports : resolveId(i.id, i.importer, i.assertions)
    \/ /\ call.outcome = "resolved"
       /\ load(call.uid)

SpecConfig == InitConfig /\ [][NextConfig]_vars

InitInline ==
    /\ \E png \in SeqsUpTo(ByteSamples, MaxLen) :
          Constructed("ts", <<>>, NoOptions, DiskWith(png, <<123, 125>>))
    /\ codec = CodecOff
    /\ fetched = FetchOff
    /\ useTopLevelAwait = FALSE
    /\ options = DefaultOptions

NextInline == Hooks(InlineImports, MaxInlineResolve)

SpecInline == InitInline /\ [][NextInline]_vars

InitCodec ==
    /\ Constructed("ts", <<>>, NoOptions, DiskWith(<<255, 0, 123>>, <<123, 125>>))
    /\ fetched = FetchOff
    /\ useTopLevelAwait = FALSE
    /\ options = DefaultOptions
    /\ \E bytes \in SeqsUpTo(CodecBytes, MaxLen) :
          codec = [pc |-> "bytes", bytes |-> bytes, text |-> <<>>,
                   result |-> [ok |-> FALSE, buffer |-> <<>>]]

NextCodec == encode \/ decode

SpecCodec == InitCodec /\ [][NextCodec]_vars

\* the characters of the texts atob2 is run on: two letters of the alphabet,
\* the padding character, a blank and a character outside the alphabet
TextChars == {"A", "/", "=", " ", "-"}

InitText ==
    /\ Constructed("ts", <<>>, NoOptions, DiskWith(<<255, 0, 123>>, <<123, 125>>))
    /\ fetched = FetchOff
    /\ useTopLevelAwait = FALSE
    /\ options = DefaultOptions
    /\ \E text \in SeqsUpTo(TextChars, MaxText) :
          codec = [pc |-> "text", bytes |-> <<>>, text |-> text,
                   result |-> [ok |-> FALSE, buffer |-> <<>>]]

\* atob2 on a text that is given, whatever it is
NextText == decode

SpecText == InitText /\ [][NextText]_vars

\* the forms a request's path takes: under "~/" and "~", absolute, and
\* relative with and without dot segments
PathSamples ==
    {Pathname("~/", <<"e.bin">>), Pathname("~", <<"e.bin">>),
     Pathname("~/", <<"lib", "a.png">>),
     Pathname("/", <<"p", "src", "a.png">>), Pathname("/", <<"q", "a.png">>),
     Pathname("", <<"a.png">>), Pathname("", <<".", "a.png">>),
     Pathname("", <<"..", "lib", "a.png">>)}

PathImports ==
    {Import(Id(pn, q), importer, NoOptions) :
        pn \in PathSamples, q \in {NoSearch, Opt("asset", None, None, None)},
        importer \in {ModuleM, ModuleN, NoImporter}}

InitPath ==
    /\ Constructed("ts", <<>>, NoOptions, DiskWith(<<255, 0, 123>>, <<123, 125>>))
    /\ codec = CodecOff
    /\ fetched = FetchOff
    /\ useTopLevelAwait = FALSE
    /\ options = DefaultOptions

\* one build's resolveId calls
NextPath ==
    /\ uniqueIdCounter < MaxPathResolve
    /\ \E i \in PathImports : resolveId(i.id, i.importer, i.assertions)

SpecPath == InitPath /\ [][NextPath]_vars

\* rollup's watch(opts) starts the next build with the plugin object it was
\* given once: the host's module graph and emitted files are new, whatever
\* the plugin's closure holds is what the last build left there
startBuild ==
    /\ phase = "generate"
    /\ phase' = "build"
    /\ modules' = <<>>
    /\ assets' = <<>>
    /\ buildEnds' = 0
    /\ call' = Call(Id(Relative("a.png"), NoSearch), NoImporter, NoOptions, "none", -1)
    /\ chunk' = [rendered |-> FALSE, code |-> <<>>, throws |-> "", out |-> <<>>]
    /\ UNCHANGED <<variant, fileTypes, fileOptions, disk, uniqueIdCounter,
                   infoByImport, infoByUid, filePathsToEmitIds, decoded, codec,
                   fetched, useTopLevelAwait, options>>

\* the imports of the watched project: all of them inline
WatchImports ==
    {Import(Id(Relative("a.png"), NoSearch), ModuleM, NoOptions),
     Import(Id(Relative("b.json"), NoSearch), ModuleM, NoOptions),
     Import(Id(Relative("c.txt"), NoSearch), ModuleM, NoOptions)}

InitWatch ==
    /\ Constructed("ts", <<>>, NoOptions, DiskWith(<<255, 0, 123>>, <<123, 125>>))
    /\ codec = CodecOff
    /\ fetched = FetchOff
    /\ useTopLevelAwait = FALSE
    /\ options = DefaultOptions

\* build after build: resolveId and load while the graph is built, buildEnd,
\* then the next build
NextWatch ==
    \/ /\ phase = "build"
       /\ uniqueIdCounter < MaxWatchResolve
       /\ \E i \in WatchImports : resolveId(i.id, i.importer, i.assertions)
    \/ /\ phase = "build"
       /\ \E uid \in DOMAIN infoByUid : load(uid)
    \/ /\ phase = "build"
       /\ buildEnd
    \/ startBuild

SpecWatch == InitWatch /\ [][NextWatch]_vars

\* helperFileName: left out, null, empty, a name
HelperFileNames == {None, NullName, "", "h"}
\* include and exclude: left out, an empty list, patterns for .png files
Patterns ==
    {[given |-> FALSE, exts |-> {}], [given |-> TRUE, exts |-> {}],
     [given |-> TRUE, exts |-> {".png"}]}

\* requests with the prefix, requests for a helper module, plain paths and a
\* file: URL
OptionRequests ==
    {Id(Relative("a.png"), NoSearch),
     Id(Relative("b.json"), Opt("asset", None, None, None)),
     Id(Pathname("~/", <<"e.bin">>), Opt("asset", None, "sync", None)),
     Request("\\0", Pathname("", <<"decode-asset">>), NoSearch),
     Request("\\0", Pathname("", <<"h">>), NoSearch),
     Request("none", Pathname("/", <<"p", "src", "a.png">>), NoSearch),
     Request("none", Pathname("", <<".", "e.bin">>), NoSearch),
     Request("file", Pathname("/", <<"p", "src", "a.png">>), NoSearch),
     Request("file", Pathname("/", <<"p", "e.bin">>), NoSearch)}

InitOptions ==
    /\ Constructed("ts", <<>>, NoOptions, DiskWith(<<255, 0, 123>>, <<123, 125>>))
    /\ codec = CodecOff
    /\ fetched = FetchOff
    /\ useTopLevelAwait = FALSE
    /\ \E name \in HelperFileNames, include \in Patterns, exclude \in Patterns :
          options = [helperFileName |-> name, include |-> include,
                     exclude |-> exclude]

\* one build: the host asks resolveId about every import it meets and loads
\* what the plugin resolved, the helper module included
NextOptions ==
    \/ /\ uniqueIdCounter < MaxOptionResolve
       /\ call.outcome \in {"none", "helper", "ignored", "resolved"}
       /\ \E id \in OptionRequests : resolveId(id, ModuleM, NoOptions)
    \/ /\ call.outcome = "resolved"
       /\ load(call.uid)
    \/ /\ call.outcome = "helper"
       /\ load(HelperUid)

SpecOptions == InitOptions /\ [][NextOptions]_vars

\* two files, each imported from two directories, with and without a query
EarlyImports ==
    {Import(Id(Relative(name), q), importer, NoOptions) :
        name \in {"a.png", "e.bin"},
        q \in {NoSearch, Opt("asset", None, None, None)},
        importer \in {ModuleM, ModuleN}}

\* the current and the earlier source, configured alike
InitEarly ==
    /\ \E v \in {"ts", "early"}, table \in TableSamples, callback \in CallbackSamples :
          Constructed(v, [e \in {".png", ".bin"} |-> table], callback,
                      DiskWith(<<255, 0, 123>>, <<123, 125>>))
    /\ codec = CodecOff
    /\ fetched = FetchOff
    /\ useTopLevelAwait = FALSE
    /\ options = DefaultOptions

\* one build's resolveId calls, up to the first error
NextEarly ==
    /\ call.outcome \in {"none", "resolved"}
    /\ uniqueIdCounter < MaxEarlyResolve
    /\ \E i \in EarlyImports : resolveId(i.id, i.importer, i.assertions)

SpecEarly == InitEarly /\ [][NextEarly]_vars

\* the helpers the synthesized modules call
Helpers == {"Blob", "Text", "Json", "ArrayBuffer", "Response"}
\* the responses a fetch gives
Responses == {Response(TRUE, 200), Response(FALSE, 404), Response(FALSE, 500)}
\* what a caller passes as backupValue: nothing, null, a string, a promise
BackupArgs == {Undefined, Null, Str(""), Str("fallback"), Promise(Str("later"))}

InitAsset ==
    /\ Constructed("ts", <<>>, NoOptions, DiskWith(<<255, 0, 123>>, <<123, 125>>))
    /\ codec = CodecOff
    /\ fetched = FetchOff
    /\ useTopLevelAwait = FALSE
    /\ options = DefaultOptions

\* a module calls a helper on fetch(url) or on a response it already has
NextAsset ==
    \/ \E helper \in Helpers, r \in Responses, arg \in BackupArgs,
          pending \in BOOLEAN :
            callAsset(helper, IF pending THEN Promise(r) ELSE r, arg)
    \/ awaitResponse
    \/ settle

SpecAsset == InitAsset /\ [][NextAsset]_vars

\* ------------------------------------------------------------- properties
Fields == {"location", "mode", "mime", "timing"}
Locations == {"inline", "asset"}
Modes == {"blob", "array-buffer", "json", "text", "response"}

\* the hard-coded value of a field
Fallback(f) ==
    CASE f = "location" -> "inline" [] f = "mode" -> "blob"
      [] f = "mime" -> "application/octet-stream" [] f = "timing" -> "async"

RECURSIVE FirstNonEmpty(_)
\* the first value of a sequence that is neither absent nor the empty string
FirstNonEmpty(values) ==
    IF Len(values) = 1 \/ Truthy(Head(values)) THEN Head(values)
    ELSE FirstNonEmpty(Tail(values))

\* what the last resolveId call should give field f: the query parameter, the
\* assertion, the callback's result, the table's entry, the fallback
Expected(f) ==
    LET path == inputFilePathOf(call.id, call.importer)
    IN  FirstNonEmpty(<<call.id.search[f], call.assertions[f], fileOptions[f],
                        fileTypesEntry(fileTypes, extname(path))[f], Fallback(f)>>)

\* C1: when atob2 has decoded the base64 text of a byte sequence, it has not
\* thrown and its buffer is that byte sequence, with the same length and the
\* same values; the empty sequence and the lengths that need padding included.
C1_RoundTrip ==
    codec.pc = "done" => codec.result.ok /\ codec.result.buffer = codec.bytes

\* a sequence whose encoding ends with one = has been decoded
C1_Witness ==
    /\ codec.pc = "done"
    /\ Len(codec.bytes) = 2
    /\ codec.text[Len(codec.text)] = "="
    /\ codec.result.buffer = codec.bytes

\* C2: whenever the bundle has decoded the literal that renderChunk wrote for
\* an inline record of a binary mode, decodeInlineBase64 has not thrown, its
\* mime is the record's mime and its buffer is the bytes of the record's file,
\* whatever the file holds (the empty file included).
C2_InlineRoundTrip ==
    decoded.ran =>
        LET info == infoByUid[decoded.uid]
        IN  /\ decoded.result.ok
            /\ decoded.result.hasMime
            /\ decoded.result.mime = Chars(info.mime)
            /\ decoded.result.buffer = info.rawData

\* C3: the record a successful resolveId stores holds, in each of location,
\* mode, mime and timing on its own, the first non-empty value of: the query
\* parameter, the import assertion, the fileOptions callback's result, the
\* fileTypes entry of the extension, the hard-coded fallback.
C3_Precedence ==
    call.outcome = "resolved" =>
        \A f \in Fields : infoByUid[call.uid][f] = Expected(f)

\* a record whose location comes from the assertion and whose mode comes from
\* the query, while the callback gives other values for both
C3_Witness ==
    /\ call.outcome = "resolved"
    /\ ~Truthy(call.id.search.location) /\ Truthy(call.assertions.location)
    /\ Truthy(call.id.search.mode) /\ ~Truthy(call.assertions.mode)
    /\ Truthy(fileOptions.location) /\ fileOptions.location # call.assertions.location
    /\ Truthy(fileOptions.mode) /\ fileOptions.mode # call.id.search.mode
    /\ infoByUid[call.uid].location = call.assertions.location
    /\ infoByUid[call.uid].mode = call.id.search.mode

\* C4: a resolveId call whose assertion and query both give a non-empty value
\* for one of the four fields, the two values differing, throws, and the step
\* registers nothing: both maps and the counter are as they were.
C4_ConflictFails ==
    [][(/\ call' # call
        /\ \E f \in Fields : Conflict(call'.assertions[f], call'.id.search[f]))
       => /\ call'.outcome = "conflict"
          /\ UNCHANGED <<infoByImport, infoByUid, uniqueIdCounter>>]_vars

\* a call that conflicts in timing alone has thrown
C4_Witness ==
    /\ call.outcome = "conflict"
    /\ Conflict(call.assertions.timing, call.id.search.timing)
    /\ \A f \in Fields \ {"timing"} : ~Conflict(call.assertions[f], call.id.search[f])
    /\ infoByUid = <<>>

\* C5: every record of the registry has a location in {inline, asset} and a
\* mode in {blob, array-buffer, json, text, response}; a resolveId call whose
\* merged location or merged mode is outside these sets has thrown.
C5_UnknownRejected ==
    /\ \A u \in DOMAIN infoByUid :
          infoByUid[u].location \in Locations /\ infoByUid[u].mode \in Modes
    /\ (call.outcome # "none"
            /\ (Expected("location") \notin Locations \/ Expected("mode") \notin Modes))
          => call.outcome \in {"conflict", "unknown location", "unknown mode"}

\* a call whose mode, unknown, comes from the fileTypes table has thrown
C5_Witness ==
    /\ call.outcome = "unknown mode"
    /\ ~Truthy(call.id.search.mode) /\ ~Truthy(call.assertions.mode)
    /\ ~Truthy(fileOptions.mode)
    /\ Expected("mode") = "base"
    /\ infoByUid = <<>>

\* C6: as long as every successful resolveId call was for a request string of
\* its own, the records' uniqueIds are 0..N-1 for the N calls that succeeded,
\* the last of them holding N-1, however many calls have thrown in between.
C6_DenseIds ==
    LET N == Cardinality(DOMAIN infoByUid)
    IN  Cardinality(DOMAIN infoByImport) = N =>
            /\ {infoByImport[i] : i \in DOMAIN infoByImport} = 0..(N - 1)
            /\ \A u \in DOMAIN infoByUid : infoByUid[u].uniqueId = u
            /\ uniqueIdCounter = N
            /\ call.outcome = "resolved" => call.uid = N - 1

\* two requests have been resolved, and a third call has thrown after them
C6_Witness ==
    /\ Cardinality(DOMAIN infoByImport) = 2
    /\ DOMAIN infoByUid = {0, 1}
    /\ call.outcome = "conflict"

\* C7: however often a request string has been resolved, the registry holds
\* exactly one record made for it, the one infoByImport refers to, so every
\* resolution of it has returned that record's identity.
C7_OneRecordPerRequest ==
    \A i \in DOMAIN infoByImport :
        {u \in DOMAIN infoByUid : infoByUid[u].import = i} = {infoByImport[i]}

\* C8: setAssetSource is called on no record's handle more than once, and
\* once buildEnd has run, it has been called exactly once on the handle of
\* every record whose location is asset, however often buildEnd runs.
C8_OnePushPerAssetRecord ==
    \A u \in DOMAIN infoByUid :
        infoByUid[u].location = "asset" =>
            LET sets == assets[infoByUid[u].fileReferenceId].sets
            IN  IF buildEnds = 0 THEN sets = 0 ELSE sets = 1

\* C9: once buildEnd has run, every record of infoByUid, the map renderChunk
\* looks placeholders up in, has its rawData, whatever resolveId calls came
\* before.
C9_RawDataPopulated ==
    buildEnds >= 1 => \A u \in DOMAIN infoByUid : infoByUid[u].rawData # NullData

\* C10: a renderChunk call on a chunk with the placeholder of an inline json
\* record whose file is no JSON text throws.
C10_InvalidJsonFails ==
    (/\ chunk.rendered
     /\ \E i \in 1..Len(chunk.code) :
          /\ chunk.code[i] \in DOMAIN infoByUid
          /\ infoByUid[chunk.code[i]].mode = "json"
          /\ infoByUid[chunk.code[i]].location = "inline"
          /\ infoByUid[chunk.code[i]].rawData # NullData
          /\ ~JSONparse(toStringUtf8(infoByUid[chunk.code[i]].rawData)).ok)
    => chunk.throws # ""

\* C11: when a helper is done with a response that is not ok and the caller
\* passed no backup value, the helper has failed, with the response's status
\* in its error; this for each of the five helpers.
C11_NoBackupFails ==
    (/\ fetched.pc = "done"
     /\ ~awaited(fetched.passed).ok
     /\ fetched.arg = Undefined)
    => fetched.result = Rejected(awaited(fetched.passed).status)

\* C12: when a helper that takes a backup value is done with a response that
\* is not ok and the caller passed a backup that is not null, it has resolved
\* to that backup; when any helper is done with an ok response, it has
\* resolved to what its shape extracts from the response, whatever backup was
\* passed; and the response it has checked is the one a pending response
\* resolved to.
C12_BackupOrExtraction ==
    fetched.pc = "done" =>
        LET response == awaited(fetched.passed)
            value    == fetched.result.value
        IN  /\ fetched.response = response
            /\ (~response.ok /\ fetched.helper # "Response"
                    /\ fetched.arg \notin {Undefined, Null})
                  => /\ fetched.result.state = "resolved"
                     /\ value = awaited(fetched.arg)
            /\ response.ok
                  => /\ fetched.result.state = "resolved"
                     /\ IF fetched.helper = "Response" THEN value = response
                        ELSE value.js = fetched.helper /\ value.of = response

\* decodeAssetJson was called on a pending response that turned out not ok,
\* with a promise as backup, and has resolved to the promise's value
C12_Witness ==
    /\ fetched.pc = "done"
    /\ fetched.helper = "Json"
    /\ hasThen(fetched.passed)
    /\ ~fetched.response.ok
    /\ hasThen(fetched.arg)
    /\ fetched.result = Resolved(fetched.arg.value)

\* the placeholders of the rendered chunk whose number no record has
StalePlaceholders == {i \in 1..Len(chunk.code) : chunk.code[i] \notin DOMAIN infoByUid}

\* the placeholders of the rendered chunk whose record has no bytes to write
\* (a json record without bytes is written as undefined)
BytelessPlaceholders ==
    {i \in 1..Len(chunk.code) \ StalePlaceholders :
        /\ infoByUid[chunk.code[i]].rawData = NullData
        /\ infoByUid[chunk.code[i]].mode # "json"}

\* C13: a renderChunk call throws only because of a placeholder that has a
\* record; when it does not throw, every placeholder whose number has no
\* record is replaced by undefined and every other placeholder by the text
\* made from the record of its own number.
C13_StaleIsUndefined ==
    chunk.rendered =>
        /\ chunk.throws # "" => BytelessPlaceholders # {}
        /\ chunk.throws = "" =>
              /\ \A i \in StalePlaceholders : chunk.out[i] = Chars("undefined")
              /\ \A i \in 1..Len(chunk.code) \ StalePlaceholders :
                    chunk.out[i] = switchMode(infoByUid[chunk.code[i]]).text

\* a chunk with a placeholder without a record and a placeholder of a blob
\* record has been rendered
C13_Witness ==
    /\ chunk.rendered /\ chunk.throws = ""
    /\ StalePlaceholders # {}
    /\ \E i \in 1..Len(chunk.code) \ StalePlaceholders :
          /\ infoByUid[chunk.code[i]].mode = "blob"
          /\ chunk.out[i] = dataLiteral(infoByUid[chunk.code[i]].mime,
                                        infoByUid[chunk.code[i]].rawData)

\* the helper the helper module exports for a mode
HelperOfMode(mode) ==
    CASE mode = "blob" -> "Blob" [] mode = "array-buffer" -> "ArrayBuffer"
      [] mode = "text" -> "Text" [] mode = "json" -> "Json"
      [] mode = "response" -> "Response"

C15_BadLengthRejected ==
    (codec.pc = "done" /\ Len(stripFinalEq(trim(codec.text))) % 4 = 1)
        => ~codec.result.ok

\* the text without the characters that are not in the alphabet
InAlphabet(text) == SelectSeq(text, hasCtoi)

\* C16: when atob2 decodes the text that is left after the characters outside
\* the alphabet are removed, it also decodes the text with them, to the same
\* bytes.
C16_OutsidersIgnored ==
    codec.pc = "done" =>
        LET clean == atob2(InAlphabet(codec.text))
        IN  clean.ok => codec.result.ok /\ codec.result.buffer = clean.buffer

\* C17: the source path of a resolved request is the project root joined with
\* the path after "~/" or "~", the path itself when it is absolute, and else
\* the importer's directory (the project root without an importer) joined
\* with the path; it is absolute in every case.
C17_InputFilePath ==
    call.outcome = "resolved" =>
        LET pn   == call.id.pathname
            path == infoByUid[call.uid].inputFilePath
            dir  == IF pn.lead \in {"~/", "~"} \/ call.importer = NoImporter
                    THEN projectDir
                    ELSE SubSeq(call.importer, 1, Len(call.importer) - 1)
        IN  /\ isAbsolute(path)
            /\ IF pn.lead = "/" THEN path = <<"">> \o pn.segs
               ELSE path = Normalize(dir \o pn.segs)

\* a path with a ".." segment was resolved against the importer's directory,
\* after a path under "~/" was resolved against the project root
C17_Witness ==
    /\ call.outcome = "resolved"
    /\ call.id.pathname = Pathname("", <<"..", "lib", "a.png">>)
    /\ call.importer = ModuleM
    /\ infoByUid[call.uid].inputFilePath = <<"", "p", "lib", "a.png">>
    /\ \E u \in DOMAIN infoByUid :
          /\ infoByUid[u].import.pathname.lead = "~/"
          /\ infoByUid[u].inputFilePath = <<"", "p", "e.bin">>

\* C18: two source files whose project-relative paths differ never receive
\* the same output path.
C18_DistinctOutputPaths ==
    \A u, v \in DOMAIN infoByUid :
        hashPathRelative(infoByUid[u].inputFilePath)
            # hashPathRelative(infoByUid[v].inputFilePath)
        => infoByUid[u].outputFilePath # infoByUid[v].outputFilePath
\* C19: a request with ?location=asset&mode=json has one host asset of its
\* own at the computed output path from resolveId on; its module, once loaded,
\* fetches that path through decodeAssetJson; and once buildEnd has run the
\* asset's source is the bytes of the source file.
C19_AssetJsonScenario ==
    \A u \in DOMAIN infoByUid :
        LET info == infoByUid[u]
            ref  == info.fileReferenceId
        IN  (info.import.search.location = "asset" /\ info.import.search.mode = "json")
            => /\ ref \in DOMAIN assets
               /\ assets[ref].fileName = getDefaultAssetPath(info.inputFilePath)
               /\ \A v \in DOMAIN infoByUid : infoByUid[v].fileReferenceId = ref => v = u
               /\ u \in DOMAIN modules =>
                     /\ modules[u].kind = "asset"
                     /\ modules[u].m = "Json"
                     /\ modules[u].url = assets[ref].fileName
               /\ phase = "generate" => assets[ref].source = disk[info.inputFilePath]
\* C20: when a build starts (no request resolved and no module loaded yet in
\* it) the registry is empty and the next identity is 0.
C20_FreshRegistryPerBuild ==
    (phase = "build" /\ call.outcome = "none" /\ modules = <<>>)
    => /\ uniqueIdCounter = 0
       /\ infoByImport = <<>>
       /\ infoByUid = <<>>
\* C21 as stated: every synthesized module holds the helper source iff
\* helperFileName is null, and imports the helpers from the helper module
\* otherwise.
C21_HelpersInlineIffNull ==
    \A u \in DOMAIN modules \ {HelperUid} :
        /\ modules[u].helper = "inline" <=> options.helperFileName = NullName
        /\ options.helperFileName # NullName =>
              /\ modules[u].helper = "import"
              /\ modules[u].from = DATA_HELPER_DECODE.pathname.segs[1]

\* C21: every synthesized module that calls a helper (all but the module of
\* an asset with timing sync, which exports the URL and holds no helper in
\* any setting) holds the helper source iff helperFileName is null and
\* imports the helpers from the module named after helperFileName, or
\* decode-asset, otherwise; resolveId answers that module's id with "helper"
\* and registers no record for it, and load serves it as the helper source.
C21_HelperPlacement ==
    /\ \A u \in DOMAIN modules \ {HelperUid} :
          IF modules[u].kind = "url"
          THEN modules[u].helper = "none" /\ modules[u].from = None
          ELSE /\ modules[u].helper = "inline" <=> options.helperFileName = NullName
               /\ options.helperFileName # NullName =>
                     /\ modules[u].helper = "import"
                     /\ modules[u].from =
                            (IF options.helperFileName \in {None, ""}
                             THEN "decode-asset" ELSE options.helperFileName)
    /\ (call.outcome # "none" /\ call.id.scheme = "\\0") =>
          /\ call.outcome = "helper"
                <=> call.id.pathname.segs[1] =
                        (IF options.helperFileName \in {None, NullName, ""}
                         THEN "decode-asset" ELSE options.helperFileName)
          /\ call.id \notin DOMAIN infoByImport
          /\ call.uid = -1
    /\ HelperUid \in DOMAIN modules => modules[HelperUid].kind = "helper"

\* with helperFileName null a module came with the helper source in it, after
\* the helper module's own id was answered and served
C21_Witness ==
    /\ options.helperFileName = NullName
    /\ \E u \in DOMAIN modules : modules[u].kind = "inline" /\ modules[u].helper = "inline"
    /\ HelperUid \in DOMAIN modules
\* C22: resolveId handles a request iff it has the datafile: prefix or
\* include is configured and the filter accepts it; exclude never keeps a
\* prefixed request from being handled; a request handled through the filter
\* alone is resolved and registered as a prefixed one is.
C22_FilteredLikePrefixed ==
    call.outcome # "none" =>
        LET prefixed == call.id.scheme = "datafile"
            accepted == /\ options.include.given
                        /\ call.id.scheme # "\\0"
                        /\ ExtOf[call.id.pathname.segs[Len(call.id.pathname.segs)]]
                              \notin options.exclude.exts
                        /\ \/ options.include.exts = {}
                           \/ ExtOf[call.id.pathname.segs[Len(call.id.pathname.segs)]]
                                 \in options.include.exts
            registered == /\ call.outcome = "resolved"
                          /\ call.id \in DOMAIN infoByImport
                          /\ infoByImport[call.id] = call.uid
                          /\ call.uid \in DOMAIN infoByUid
                          /\ infoByUid[call.uid].import = call.id
        IN  /\ call.outcome \notin {"ignored", "helper"} <=> (prefixed \/ accepted)
            /\ prefixed => registered
            /\ (~prefixed /\ accepted) => registered
\* C23: in both sources, when the fileOptions callback and the fileTypes
\* entry of the extension both give a value for a field and neither the query
\* nor the assertion does, the record holds the callback's value.
C23_CallbackOverTable ==
    call.outcome = "resolved" =>
        LET info  == infoByUid[call.uid]
            entry == IF ExtOf[info.inputFilePath[Len(info.inputFilePath)]]
                           \in DOMAIN fileTypes
                     THEN fileTypes[ExtOf[info.inputFilePath[Len(info.inputFilePath)]]]
                     ELSE NoOptions
            held(f) == /\ Truthy(fileOptions[f]) /\ Truthy(entry[f])
                       /\ ~Truthy(info.import.search[f])
                       /\ ~Truthy(call.assertions[f])
        IN  /\ held("location") => info.location = fileOptions.location
            /\ held("mode") => info.mode = fileOptions.mode
            /\ held("mime") => info.mime = fileOptions.mime
            /\ (variant # "early" /\ held("timing")) => info.timing = fileOptions.timing
\* C29: the identity resolveId returns for a request refers to a record whose
\* inputFilePath is the path the request resolves to from the importer of
\* this call, also when the same request string was resolved before from a
\* module of another directory.
C29_PathOfThisImporter ==
    call.outcome = "resolved" =>
        infoByUid[call.uid].inputFilePath =
            (IF call.id.pathname.lead = ""
             THEN Normalize(SubSeq(call.importer, 1, Len(call.importer) - 1)
                              \o call.id.pathname.segs)
             ELSE inputFilePathOf(call.id, call.importer))
\* C24: infoByImport and infoByUid hold the same records, and every record
\* that was registered can be retrieved by its request string and by its
\* identity.
C24_IndicesAgree ==
    /\ {infoByImport[i] : i \in DOMAIN infoByImport} = DOMAIN infoByUid
    /\ \A u \in DOMAIN infoByUid :
          /\ infoByUid[u].import \in DOMAIN infoByImport
          /\ infoByImport[infoByUid[u].import] = u
    /\ DOMAIN infoByUid = 0..(uniqueIdCounter - 1)

\* C25: a record has a fileReferenceId iff its location is asset; such a
\* record has, from its registration on, a handle the host knows and the
\* output path the host gave for it, and the module load makes for it
\* fetches or exports that path.
C25_HandleIffAsset ==
    \A u \in DOMAIN infoByUid :
        LET info == infoByUid[u]
        IN  /\ info.fileReferenceId # NoRef <=> info.location = "asset"
            /\ info.location = "asset" =>
                  /\ info.fileReferenceId \in DOMAIN assets
                  /\ info.outputFilePath = assets[info.fileReferenceId].fileName
                  /\ info.outputFilePath # <<>>
                  /\ u \in DOMAIN modules =>
                        /\ modules[u].kind \in {"asset", "url"}
                        /\ modules[u].url = assets[info.fileReferenceId].fileName

\* the module of an asset record has been loaded while an inline record
\* stands beside it
C25_Witness ==
    \E u, v \in DOMAIN infoByUid :
        /\ infoByUid[u].location = "asset"
        /\ infoByUid[u].fileReferenceId # NoRef
        /\ u \in DOMAIN modules
        /\ modules[u].kind = "asset"
        /\ infoByUid[v].location = "inline"
        /\ infoByUid[v].fileReferenceId = NoRef

\* C26: the timing of every record is sync or async.
C26_TimingKnown ==
    \A u \in DOMAIN infoByUid : infoByUid[u].timing \in {"sync", "async"}

\* C27: when buildEnd has completed, setAssetSource has been called on every
\* handle emitFile gave out, with the bytes of the source file of the record
\* the handle was made for.
C27_EveryHandleSourced ==
    phase = "generate" =>
        \A h \in DOMAIN assets :
            /\ assets[h].sets >= 1
            /\ \A u \in DOMAIN infoByUid :
                  infoByUid[u].fileReferenceId = h =>
                      assets[h].source = disk[infoByUid[u].inputFilePath]
\* C28: a resolveId call that throws for a conflict, an unknown location or
\* an unknown mode leaves the counter, both indices, filePathsToEmitIds and
\* the host's emitted files as they were.
C28_FailureChangesNothing ==
    [][(/\ call' # call
        /\ call'.outcome \in {"conflict", "unknown location", "unknown mode"})
       => UNCHANGED <<uniqueIdCounter, infoByImport, infoByUid, filePathsToEmitIds,
                      assets>>]_vars

\* a call has thrown for a conflict after an asset record was registered
C28_Witness ==
    /\ call.outcome = "conflict"
    /\ uniqueIdCounter >= 1
    /\ Len(assets) >= 1
    /\ DOMAIN filePathsToEmitIds # {}
\* C30: when a chunk has been rendered, the matches of the pattern are the
\* placeholders load wrote into it, in their order, and the placeholder of
\* every inline record has been replaced by the literal made from the
\* rawData, mode and mime of the record of its own number.
C30_OwnLiteral ==
    chunk.rendered =>
        /\ chunk.code \in {chunkCode(FALSE), chunkCode(TRUE)}
        /\ \A i \in 1..Len(chunk.code) :
              (/\ chunk.code[i] \in DOMAIN infoByUid
               /\ infoByUid[chunk.code[i]].location = "inline")
              => /\ chunk.throws = ""
                 /\ chunk.out[i] = switchMode(infoByUid[chunk.code[i]]).text
====
